---- MODULE Spec2Model ----
(***************************************************************************)
(* Autheliarr: one-way sync of Wizarr users into the Authelia users file.  *)
(* A model of src/main.py: the validators, the credential generator, the   *)
(* reconciliation loop of sync_users, the store adapters and the driver    *)
(* loop of main.                                                           *)
(*                                                                         *)
(* Strings are sequences of one-character strings, so that the regular     *)
(* expressions, str.title() and the obfuscation act on characters.         *)
(***************************************************************************)
EXTENDS Integers, Sequences, FiniteSets, TLC

\* ------------------------------------------------------------------ bounds
\* Longest source list drawn in Init.
MaxUsers == 2
\* The passes pass_no tells apart: it counts the passes started up to this
\* number and stays there in the passes after.
MaxPasses == 2
\* Number of environment failures (a store that cannot be read or written, a
\* failing hash, a failing restart) in one behaviour.
MaxFaults == 1
\* How far from the shortest and the longest allowed username the length of
\* a drawn username may be.
MaxOverLen == 2

\* ------------------------------------------------------- program constants
UsernameMinLen == 3
UsernameMaxLen == 32
TldMinLen == 2
DefaultPasswordLength == 16
MinPasswordLength == 8
ObfuscateThreshold == 6
ObfuscateVisible == 2
Argon2MemoryCost == 65536
Argon2TimeCost == 3
Argon2Parallelism == 4
ExitFailure == 1
\* Exit status of a Python process ended by an unhandled KeyboardInterrupt.
ExitInterrupted == 130

\* -------------------------------------------------------------- characters
LowerCase ==
  <<"a","b","c","d","e","f","g","h","i","j","k","l","m",
    "n","o","p","q","r","s","t","u","v","w","x","y","z">>
UpperCase ==
  <<"A","B","C","D","E","F","G","H","I","J","K","L","M",
    "N","O","P","Q","R","S","T","U","V","W","X","Y","Z">>
DigitChars == <<"0","1","2","3","4","5","6","7","8","9">>
SymbolChars == <<"!","@","#","$","%","^","&","*">>

Range(s) == {s[i] : i \in DOMAIN s}

Letters == Range(LowerCase) \cup Range(UpperCase)
Digits == Range(DigitChars)

\* string.ascii_letters + string.digits + "!@#$%^&*"
PasswordAlphabet == LowerCase \o UpperCase \o DigitChars \o SymbolChars

\* [a-zA-Z0-9._-]
UsernameChars == Letters \cup Digits \cup {".", "_", "-"}
\* [a-zA-Z0-9._%+-]
EmailLocalChars == Letters \cup Digits \cup {".", "_", "%", "+", "-"}
\* [a-zA-Z0-9.-]
EmailDomainChars == Letters \cup Digits \cup {".", "-"}

ToUpper(c) ==
  IF c \in Range(LowerCase)
    THEN UpperCase[CHOOSE i \in DOMAIN LowerCase : LowerCase[i] = c]
    ELSE c
ToLower(c) ==
  IF c \in Range(UpperCase)
    THEN LowerCase[CHOOSE i \in DOMAIN UpperCase : UpperCase[i] = c]
    ELSE c

\* str.title(): the first cased character of every run of cased characters is
\* upper-cased, the others of the run are lower-cased.
Title(s) ==
  [i \in 1..Len(s) |->
     IF s[i] \in Letters
       THEN IF i > 1 /\ s[i-1] \in Letters THEN ToLower(s[i]) ELSE ToUpper(s[i])
       ELSE s[i]]

\* ------------------------------------------------------------- validators
\* Where Python's "$" may match: at the end of the string, and just before a
\* newline that is the last character.
MatchEnds(s) ==
  {Len(s)} \cup (IF Len(s) > 0 /\ s[Len(s)] = "\n" THEN {Len(s) - 1} ELSE {})

AllIn(s, lo, hi, chars) == \A i \in lo..hi : s[i] \in chars

\* re.match(r'^[a-zA-Z0-9._-]{3,32}$', username) is not None
validate_username(username) ==
  \E e \in MatchEnds(username) :
     /\ e >= UsernameMinLen
     /\ e <= UsernameMaxLen
     /\ AllIn(username, 1, e, UsernameChars)

\* re.match(r'^[a-zA-Z0-9._%+-]+@[a-zA-Z0-9.-]+\.[a-zA-Z]{2,}$', email) is not None
\* at: the position of "@"; dot: the position of the "." before the last label.
validate_email(email) ==
  \E e \in MatchEnds(email) :
    \E at \in 2..e : \E dot \in (at + 2)..e :
       /\ email[at] = "@"
       /\ AllIn(email, 1, at - 1, EmailLocalChars)
       /\ AllIn(email, at + 1, dot - 1, EmailDomainChars)
       /\ email[dot] = "."
       /\ e - dot >= TldMinLen
       /\ AllIn(email, dot + 1, e, Letters)

\* ---------------------------------------------------- credential generator
Max(a, b) == IF a >= b THEN a ELSE b

CharCode(c) == CHOOSE i \in DOMAIN PasswordAlphabet : PasswordAlphabet[i] = c

\* What secrets.choice returns in one call of generate_password, place by
\* place: characters of the alphabet, of which "*" is one. The first has a
\* character twice; the second has "*" at every place but the first two and
\* the last two, and so the character of the first at place 13.
Sample1 ==
  <<"H","#","G","T","7","Y","1","0","$","$","e","h","*","S","6","s">>
Sample2 ==
  <<"a","b","*","*","*","*","*","*","*","*","*","*","*","*","c","d">>

\* The salts os.urandom gives the hasher.
SaltPool == {1, 2}

\* What the system random source gives the creation of one user: the
\* characters secrets.choice returns and, independently, the salt of the
\* hasher. Every creation takes any of these, also one taken before: two
\* passwords are equal or not, and so are two salts.
RandomReads == [sample : {Sample1, Sample2}, salt : SaltPool]

\* secrets.choice(alphabet) at place j of a call.
Draw(sample, j) == sample[j]

\* generate_password: length characters, at least 8, each drawn from the
\* alphabet.
generate_password(length, sample) ==
  [j \in 1..Max(length, MinPasswordLength) |-> Draw(sample, j)]

RECURSIVE Digest(_, _)
\* A stand-in for the Argon2id digest: a salted polynomial over the characters.
Digest(plain, salt) ==
  IF plain = <<>>
    THEN salt
    ELSE (31 * Digest(Tail(plain), salt) + CharCode(Head(plain))) % 65521

\* hash_password: the encoded hash names the algorithm, its parameters, the
\* salt and the digest.
hash_password(plain, salt) ==
  [alg |-> "argon2id", memory_cost |-> Argon2MemoryCost,
   time_cost |-> Argon2TimeCost, parallelism |-> Argon2Parallelism,
   salt |-> salt, digest |-> Digest(plain, salt)]

\* PasswordHasher.verify: false for a text that is no encoded hash.
VerifyHash(hash, plain) ==
  /\ "salt" \in DOMAIN hash
  /\ hash = hash_password(plain, hash.salt)

\* _log_password_securely, the form written to the main log.
Obfuscate(plain) ==
  IF Len(plain) > ObfuscateThreshold
    THEN [i \in 1..Len(plain) |->
            IF i <= ObfuscateVisible \/ i > Len(plain) - ObfuscateVisible
              THEN plain[i] ELSE "*"]
    ELSE [i \in 1..Len(plain) |-> "*"]

\* ------------------------------------------------------------------- data
\* Values of a parsed YAML document.
YNull == [t |-> "null"]
YList(items) == [t |-> "list", items |-> items]
YStr(s) == [t |-> "str", s |-> s]
\* None where a record holds a text (displayname, email, a group).
NoneText == <<"None">>
YMap(m) == [t |-> "map", m |-> m]

\* A top-level mapping: whether it has the key 'users', the value under it,
\* and whether it has the key 'other'.
Document(has_users, users, extra) ==
  [t |-> "map", has_users |-> has_users, users |-> users, extra |-> extra]

\* {'users': {}}
EmptyDocument == Document(TRUE, YMap(<<>>), FALSE)

\* The states of a file on disk.
FileMissing == [kind |-> "missing"]
FileGarbage == [kind |-> "garbage"]
FileYaml(data) == [kind |-> "yaml", data |-> data]

uBob == <<"b","o","b">>
uAl == <<"a","l","1">>
uBad == <<"a","!","b">>
eB == <<"b","@","x",".","c","o">>
eO == <<"o","@","x",".","c","o">>
eBad == <<"b","@","x">>
gAdmins == <<"a","d","m","i","n","s">>
gPlex == <<"p","l","e","x","_","u","s","e","r","s">>

\* Rows of "SELECT username, email FROM user WHERE email IS NOT NULL", in
\* table order.
SourceRows ==
  << [username |-> uBad, email |-> eB],
     [username |-> uBob, email |-> eB],
     [username |-> uAl,  email |-> eB],
     [username |-> uBob, email |-> eBad],
     [username |-> uBob, email |-> eO] >>

RECURSIVE Repeat(_, _)
\* n times the character c.
Repeat(c, n) == IF n = 0 THEN <<>> ELSE <<c>> \o Repeat(c, n - 1)

\* Usernames a row may hold: every length up to MaxOverLen over the shortest
\* allowed and within MaxOverLen of the longest allowed, of allowed
\* characters only, with a newline or a "!" as the last character, with a
\* newline first; and some mixed ones.
UsernameProbes ==
  LET lens == (0..(UsernameMinLen + MaxOverLen))
                \cup ((UsernameMaxLen - MaxOverLen)..(UsernameMaxLen + MaxOverLen))
  IN {Repeat("a", n) : n \in lens}
       \cup {Repeat("a", n) \o <<"\n">> : n \in lens}
       \cup {Repeat("a", n) \o <<"!">> : n \in lens}
       \cup {<<"\n">> \o Repeat("a", n) : n \in lens}
       \cup {uBob, <<"A", "-", "9">>, <<"z", ".", "_", "Z", "0">>,
             <<"a", "\n", "b">>, <<"a", " ", "b">>, <<"a", "b", "\n", "\n">>}

\* Tables of one row with a username of UsernameProbes.
UsernameDbPool ==
  {[exists |-> TRUE, rows |-> <<[username |-> u, email |-> eB]>>] :
     u \in UsernameProbes}

RECURSIVE Select(_, _)
\* The rows of s at the positions in keep, in order.
Select(s, keep) ==
  IF s = <<>> THEN <<>>
  ELSE LET rest == Select(Tail(s), {k - 1 : k \in keep \ {1}})
       IN IF 1 \in keep THEN <<Head(s)>> \o rest ELSE rest

\* The tables drawn in Init: up to MaxUsers of the rows.
SourceLists ==
  {Select(SourceRows, keep) :
     keep \in {k \in SUBSET DOMAIN SourceRows : Cardinality(k) <= MaxUsers}}

WizarrDbPool ==
  {[exists |-> FALSE, rows |-> <<>>]}
    \cup {[exists |-> TRUE, rows |-> l] : l \in SourceLists}

OldHash == hash_password(<<"o","l","d","P","a","s","s","1">>, 3)

RecBob ==
  YMap([displayname |-> <<"B","o","b","b","y">>, password |-> OldHash,
        email |-> eB, groups |-> YList(<<gAdmins>>)])
RecBobNoEmail ==
  YMap([displayname |-> <<"B","o","b","b","y">>, password |-> OldHash,
        groups |-> YList(<<gAdmins>>)])
RecAl ==
  YMap([displayname |-> Title(uAl), password |-> OldHash,
        email |-> eO, groups |-> YList(<<gPlex>>)])

\* Users files the program may find at AUTHELIA_USERS_PATH.
TargetFilePool ==
  { FileMissing,
    FileGarbage,
    FileYaml(YList(<<>>)),
    FileYaml(YList(<<uBob>>)),
    FileYaml(Document(TRUE, YList(<<uBob>>), FALSE)),
    FileYaml(Document(FALSE, YNull, TRUE)),
    FileYaml(Document(TRUE, YNull, FALSE)),
    FileYaml(Document(TRUE, YMap(uBob :> RecBob @@ uAl :> RecAl), FALSE)),
    FileYaml(Document(TRUE, YMap(uBob :> RecBobNoEmail @@ uAl :> YNull), FALSE)) }

\* AutheliarrSync.__init__ and the module-level secure logger: with and
\* without dry run, single-run and periodic; the restart is disabled in one
\* single-run configuration and the secure log is missing in another.
ConfigPool ==
  [dry_run : BOOLEAN, restart_authelia : {TRUE}, sync_interval : {0, 60},
   default_group : {gPlex}, secure_handler : {TRUE}]
    \cup [dry_run : {FALSE}, restart_authelia : {FALSE}, sync_interval : {0},
          default_group : {gPlex}, secure_handler : {TRUE}]
    \cup [dry_run : {FALSE}, restart_authelia : {TRUE}, sync_interval : {0},
          default_group : {gPlex}, secure_handler : {FALSE}]

\* ------------------------------------------------------------------ state
VARIABLES
  cfg,            \* the configuration read at startup
  wizarr_db,      \* the Wizarr database
  file,           \* the Authelia users file on disk
  pc,             \* where the process is
  pass_no,        \* number of passes started, up to MaxPasses
  wizarr_users,   \* sync_users: the source users read
  authelia_data,  \* sync_users: the document as loaded
  authelia_users, \* sync_users: the users mapping being edited
  i,              \* sync_users: index of the next source user
  new_users,      \* sync_users: records created in this pass
  updated_users,  \* sync_users: records updated in this pass
  error,          \* the exception that ended the pass, or "none"
  report,         \* the line sync_users logged on its way out
  exit_code,      \* the exit status, once pc = "exit"
  main_log,       \* <<username, obfuscated>> lines of the main log: its end
  secure_log,     \* <<username, password>> lines of the secure log: its end
  file_writes,    \* this pass's opens and dumps of the users file: [op, ok]
  docker_calls,   \* this pass's docker restarts, as issued: [ok]
  file_at_start,  \* the users file when the current pass started
  prev,           \* how the previous pass ended, and the document it wrote
  faults,         \* number of environment failures so far
  password        \* sync_users: the password drawn last

vars ==
  <<cfg, wizarr_db, file, pc, pass_no, wizarr_users, authelia_data,
    authelia_users, i, new_users, updated_users, error, report, exit_code,
    main_log, secure_log, file_writes, docker_calls, file_at_start, prev,
    faults, password>>

envVars == <<cfg, wizarr_db>>
passVars == <<wizarr_users, authelia_data, authelia_users, i, new_users, updated_users>>
logVars == <<main_log, secure_log>>
ioVars == <<file_writes, docker_calls>>
histVars == <<pass_no, file_at_start, prev>>

Periodic == cfg.sync_interval > 0

\* The steps of sync_users.
PassSteps ==
  {"load", "loop", "log_secure", "save", "dump", "restart", "docker_wait", "report"}

\* ---------------------------------------------------------- store adapters
\* get_wizarr_users: the rows, or [] when the database is missing or the
\* query raises (readable is false).
get_wizarr_users(db, readable) ==
  IF ~db.exists THEN <<>>
  ELSE IF readable THEN db.rows ELSE <<>>

\* bool(data) of a parsed document.
Truthy(data) ==
  \/ data.t = "list" /\ data.items # <<>>
  \/ data.t = "str" /\ data.s # <<>>
  \/ data.t = "map" /\ (data.has_users \/ data.extra)

\* load_authelia_users: {'users': {}} for a missing file, for a file that
\* cannot be opened (readable is false) or parsed and for a falsy document;
\* the parsed document otherwise.
load_authelia_users(f, readable) ==
  IF f.kind = "missing" THEN EmptyDocument
  ELSE IF f.kind = "garbage" \/ ~readable THEN EmptyDocument
  ELSE IF Truthy(f.data) THEN f.data ELSE EmptyDocument

\* The outcomes the environment may give an operation that can fail: success,
\* and failure while the behaviour has failures left.
Outcomes == IF faults < MaxFaults THEN {TRUE, FALSE} ELSE {TRUE}

Fault(ok) == IF ok THEN 0 ELSE 1

\* authelia_data.get('users', {})
GetUsers(data) == IF data.has_users THEN data.users ELSE YMap(<<>>)

\* authelia_data['users'] = authelia_users
WithUsers(data, users) == [data EXCEPT !.has_users = TRUE, !.users = users]

\* rec.get(key, default)
RecordGet(rec, key, default) == IF key \in DOMAIN rec THEN rec[key] ELSE default

\* A faulty update: the record is rebuilt from the email alone.
SetEmail_Rebuild(rec, email) == [email |-> email]

\* rec['email'] = email
SetEmail(rec, email) ==
  [k \in DOMAIN rec \cup {"email"} |-> IF k = "email" THEN email ELSE rec[k]]

\* A faulty record: the new user is in no group.
NewRecord_NoGroups(username, email, password_hash, default_group) ==
  YMap([displayname |-> Title(username), password |-> password_hash,
        email |-> email, groups |-> YList(<<>>)])

\* The record sync_users builds for a new user.
NewRecord(username, email, password_hash, default_group) ==
  YMap([displayname |-> Title(username), password |-> password_hash,
        email |-> email, groups |-> YList(<<default_group>>)])

\* A faulty test: updates alone do not count as a change.
HasChanges_CreatedOnly(created, updated) == created > 0

\* The test of line 248.
HasChanges(created, updated) == created > 0 \/ updated > 0

\* The document sync_users holds when it returns.
FinalData ==
  IF HasChanges(new_users, updated_users)
    THEN WithUsers(authelia_data, authelia_users)
    ELSE authelia_data

\* yaml.dump then yaml.safe_load of a document of strings, lists and
\* mappings gives the document back; the file holds the document.
yaml_dump(data) == FileYaml(data)

\* What open(path, 'w') leaves on disk before anything is written.
Truncated == FileYaml(YNull)

\* The characters of the model in code-point order.
AsciiOrder ==
  <<"\n", " ", "!", "#", "$", "%", "&", "*", "+", "-", ".">> \o DigitChars
    \o <<"@">> \o UpperCase \o <<"^", "_">> \o LowerCase

Ord(c) == CHOOSE k \in DOMAIN AsciiOrder : AsciiOrder[k] = c

RECURSIVE StrLess(_, _)
\* a < b on strings: yaml.dump writes the keys of a mapping in this order.
StrLess(a, b) ==
  IF b = <<>> THEN FALSE
  ELSE IF a = <<>> THEN TRUE
  ELSE IF Head(a) = Head(b) THEN StrLess(Tail(a), Tail(b))
  ELSE Ord(Head(a)) < Ord(Head(b))

\* The order yaml.dump writes the keys of a mapping of users in: sorted, and
\* as they were inserted when None is among them (sorted raises TypeError and
\* the representer goes on unsorted); None, loaded from the file, is then
\* before the keys sync_users adds.
KeyLess(a, b) == b # NoneText /\ (a = NoneText \/ StrLess(a, b))

\* The records yaml.dump has written in full when it comes to that of u.
Before(users, u) ==
  [v \in {w \in DOMAIN users.m : KeyLess(w, u)} |-> users.m[v]]

\* A text with a line break: yaml.dump writes it between quotes, and as a
\* key after the indicator "?".
IsMultiline(s) == \E k \in DOMAIN s : s[k] = "\n"

\* Non-empty beginnings of a text, the text itself included.
Prefixes(s) == {SubSeq(s, 1, n) : n \in 1..Len(s)}

\* Where a scalar may end on disk: anywhere when the text is cut at a byte;
\* after its last character only when the text is what yaml.dump had written
\* so far, a scalar being written in one piece.
Texts(s, bytes) == IF bytes THEN Prefixes(s) ELSE {s}

NullWord == <<"n","u","l","l">>

\* The text yaml.dump writes for a text or for None.
ScalarText(v) == IF v = NoneText THEN NullWord ELSE v

\* What yaml.safe_load reads a plain scalar as.
ParseScalar(text) == IF text = NullWord THEN NoneText ELSE text

\* What the beginnings of the scalar of v read as; a quoted scalar reads as
\* nothing before its closing quote.
ScalarCuts(v, bytes) ==
  IF IsMultiline(v) THEN {v}
  ELSE {ParseScalar(text) : text \in Texts(ScalarText(v), bytes)}

UsersKey == <<"u","s","e","r","s">>

\* The keys of a record in the order yaml.dump writes them, and their texts.
FieldOrder == <<"displayname", "email", "groups", "password">>
FieldText ==
  [displayname |-> <<"d","i","s","p","l","a","y","n","a","m","e">>,
   email |-> <<"e","m","a","i","l">>,
   groups |-> <<"g","r","o","u","p","s">>,
   password |-> <<"p","a","s","s","w","o","r","d">>]

\* The parts of an encoded hash in the order of its text.
HashOrder ==
  <<"alg", "memory_cost", "time_cost", "parallelism", "salt", "digest">>

\* The text of an encoded hash cut inside its part n + 1: its first n parts.
CutHash(h, n) == [k \in {HashOrder[j] : j \in 1..n} |-> h[k]]

\* What a null or a string reads as when the text ends in it: None after
\* the key, and the beginnings of its text.
AtomCuts(v, bytes) ==
  {YNull} \cup {IF text = NullWord THEN YNull ELSE YStr(text) :
                  text \in Texts(IF v = YNull THEN NullWord ELSE v.s, bytes)}

\* What a list reads as when the text ends in its item j: the items before
\* it and that item, None or cut.
ListCuts(items, bytes) ==
  UNION {{SubSeq(items, 1, j - 1) \o <<v>> :
            v \in {NoneText} \cup ScalarCuts(items[j], bytes)} :
         j \in DOMAIN items}

\* The parts of HashOrder an encoded hash, whole or cut, has.
HashParts(h) == Cardinality(DOMAIN h)

\* What the value of the field k of a record reads as when the text ends in
\* it: None after the key, and the beginnings of the value.
FieldCuts(k, v, bytes) ==
  IF k \in {"displayname", "email"} THEN {NoneText} \cup ScalarCuts(v, bytes)
  ELSE IF "t" \in DOMAIN v /\ v.t \in {"null", "str"} THEN AtomCuts(v, bytes)
  ELSE IF k = "groups"
    THEN {YNull} \cup
           (IF v.items # <<>>
              THEN {YList(l) : l \in ListCuts(v.items, bytes)}
              ELSE {v})
  ELSE {YNull, v} \cup
         (IF bytes THEN {CutHash(v, n) : n \in 0..(HashParts(v) - 1)} ELSE {})

\* What a record reads as when the text ends in it: null after the key of
\* the user, a string in the first key of the record, and the record of the
\* fields written so far, the last of them cut.
RecordCuts(rec, bytes) ==
  IF rec.t # "map" THEN AtomCuts(rec, bytes)
  ELSE IF rec.m = <<>> THEN {YNull, rec}
  ELSE LET Has(k) == k \in DOMAIN rec.m
           fs == SelectSeq(FieldOrder, Has)
       IN {YNull} \cup {YStr(text) : text \in Texts(FieldText[fs[1]], bytes)}
            \cup UNION {{YMap([k \in {fs[x] : x \in 1..j} |->
                                 IF k = fs[j] THEN v ELSE rec.m[k]]) :
                            v \in FieldCuts(fs[j], rec.m[fs[j]], bytes)} :
                         j \in DOMAIN fs}

\* The first key yaml.dump writes of a mapping of users.
FirstKey(users) ==
  CHOOSE u \in DOMAIN users.m : \A v \in DOMAIN users.m \ {u} : KeyLess(u, v)

\* What the value of 'users' reads as when the text ends in its first key:
\* a string in a plain key, nothing in a quoted one.
KeyCuts(u, bytes) ==
  IF u = NoneText THEN AtomCuts(YNull, bytes)
  ELSE IF IsMultiline(u) THEN {}
  ELSE {YStr(text) : text \in Texts(u, bytes)}

\* What the records read as when the text ends after the indicator "?" of
\* the key u: those written so far and None under the key None.
IndicatorCuts(users, u) ==
  IF IsMultiline(u) THEN {YMap((NoneText :> YNull) @@ Before(users, u))} ELSE {}

\* What the value of 'users' reads as when the text ends in it: null after
\* the key, what the first username reads as, and the records written so
\* far, the last of them cut.
UsersCuts(users, bytes) ==
  {YNull} \cup KeyCuts(FirstKey(users), bytes)
    \cup UNION {IndicatorCuts(users, u)
                  \cup {YMap((u :> r) @@ Before(users, u)) :
                          r \in RecordCuts(users.m[u], bytes)} :
                 u \in DOMAIN users.m}

\* The top-level key other than 'users' of the documents of TargetFilePool;
\* yaml.dump writes it before 'users'.
OtherKey == <<"o","t","h","e","r">>

\* The first top-level key yaml.dump writes of a document.
FirstTopKey(data) == IF data.extra THEN OtherKey ELSE UsersKey

\* What the beginnings of the text of data read as: nothing, a text that
\* does not parse, a string in the first key, the other key alone, and
\* 'users' with its value cut after what comes before it. With bytes the
\* text ends at any byte (a write that fails part-way), without it at the
\* end of a write of yaml.dump.
PartialWrites(data, bytes) ==
  {Truncated, FileGarbage}
    \cup {FileYaml(YStr(text)) : text \in Texts(FirstTopKey(data), bytes)}
    \cup (IF data.extra THEN {FileYaml(Document(FALSE, YNull, TRUE))} ELSE {})
    \cup {FileYaml(Document(TRUE, v, data.extra)) :
            v \in UsersCuts(data.users, bytes)}

\* A faulty save: the dry-run flag is not looked at.
SaveWrites_Always(c) == TRUE

\* save_authelia_users writes unless dry_run (line 122).
SaveWrites(c) == ~c.dry_run

\* restart_authelia_container runs docker unless dry_run or the restart is
\* disabled (lines 89-95).
RestartIssued(c) == ~c.dry_run /\ c.restart_authelia

\* A faulty hash_password: the error is logged and not re-raised.
HashErrorPc_Swallowed == "loop"

\* Where an Argon2Error leaves the pass: hash_password re-raises it and
\* sync_users does not catch it.
HashErrorPc == "raised"

\* The secure log receives the plaintext when its handler was installed.
SecureLogAvailable(c) == c.secure_handler

\* ------------------------------------------------------------------- Init
\* The state after construction, for a configuration of configs and a
\* Wizarr database of dbs.
InitWith(configs, dbs) ==
  /\ cfg \in configs
  /\ wizarr_db \in dbs
  /\ file \in TargetFilePool
  /\ pc = "main"
  /\ pass_no = 0
  /\ wizarr_users = <<>>
  /\ authelia_data = EmptyDocument
  /\ authelia_users = YMap(<<>>)
  /\ i = 1
  /\ new_users = 0
  /\ updated_users = 0
  /\ error = "none"
  /\ report = "none"
  /\ exit_code = 0
  /\ main_log = <<>>
  /\ secure_log = <<>>
  /\ file_writes = <<>>
  /\ docker_calls = <<>>
  /\ file_at_start = file
  /\ prev = [ok |-> FALSE, persisted |-> FALSE, src |-> <<>>, data |-> EmptyDocument]
  /\ faults = 0
  /\ password = <<>>

Init == InitWith(ConfigPool, WizarrDbPool)

\* ------------------------------------------------------------ sync_users
\* The loop of main has no end and the logs grow with every creation.
\* main_log and secure_log hold the end of each log: the lines the current
\* pass wrote and the LogRoom lines before them, as many as MaxPasses - 1
\* passes over MaxUsers users write. The lines before those are in the log
\* files and no longer in the state.
LogRoom == (MaxPasses - 1) * MaxUsers

\* The last n lines of a log, or all of them.
LastLines(log, n) ==
  IF Len(log) <= n THEN log ELSE SubSeq(log, Len(log) - n + 1, Len(log))

\* main calls sync_users: at startup, and at every turn of the periodic
\* loop. pass_no counts the passes started, up to MaxPasses; of the logs the
\* last LogRoom lines stay in view.
StartPass ==
  /\ pc \in {"main", "while"}
  /\ pc' = "load"
  /\ main_log' = LastLines(main_log, LogRoom)
  /\ secure_log' = LastLines(secure_log, LogRoom)
  /\ pass_no' = IF pass_no < MaxPasses THEN pass_no + 1 ELSE pass_no
  /\ file_at_start' = file
  /\ prev' = [ok |-> pass_no > 0 /\ error = "none",
              persisted |-> file = yaml_dump(FinalData),
              src |-> wizarr_users,
              data |-> IF file = yaml_dump(FinalData) THEN FinalData
                                                      ELSE EmptyDocument]
  /\ wizarr_users' = <<>>
  /\ authelia_data' = EmptyDocument
  /\ authelia_users' = YMap(<<>>)
  /\ i' = 1
  /\ new_users' = 0
  /\ updated_users' = 0
  /\ error' = "none"
  /\ report' = "none"
  /\ file_writes' = <<>>
  /\ docker_calls' = <<>>
  /\ password' = <<>>
  /\ UNCHANGED <<envVars, file, exit_code, faults>>

\* Lines 196-206: read both stores; a document that is no mapping has no
\* .get; no source users ends the pass.
LoadUsers ==
  /\ pc = "load"
  /\ \E src_ok \in Outcomes : \E tgt_ok \in Outcomes :
     LET users == get_wizarr_users(wizarr_db, src_ok)
         data == load_authelia_users(file, tgt_ok)
     IN
       /\ src_ok \/ wizarr_db.exists
       /\ tgt_ok \/ file.kind = "yaml"
       /\ faults' = faults + Fault(src_ok) + Fault(tgt_ok)
       /\ faults' <= MaxFaults
       /\ wizarr_users' = users
       /\ authelia_data' = data
       /\ IF data.t # "map"
            THEN /\ error' = "AttributeError"
                 /\ pc' = "raised"
                 /\ UNCHANGED <<authelia_users, report>>
            ELSE /\ authelia_users' = GetUsers(data)
                 /\ error' = "none"
                 /\ IF users = <<>>
                      THEN pc' = "returned" /\ report' = "no_users"
                      ELSE pc' = "loop" /\ UNCHANGED report
  /\ UNCHANGED <<envVars, password, file, ioVars, logVars, histVars, exit_code,
                 i, new_users, updated_users>>

CurrentUser == wizarr_users[i]

\* A faulty check of lines 213-219: the email is not validated.
ValidUser_UsernameOnly(u) == validate_username(u.username)

\* The two checks of lines 213-219.
ValidUser(u) == validate_username(u.username) /\ validate_email(u.email)

\* Lines 213-219: a user failing a check is skipped.
SkipInvalid ==
  /\ pc = "loop"
  /\ i <= Len(wizarr_users)
  /\ ~ValidUser(CurrentUser)
  /\ i' = i + 1
  /\ UNCHANGED <<envVars, password, file, ioVars, logVars, histVars, exit_code, pc, error, report,
                 wizarr_users, authelia_data, authelia_users, new_users, updated_users, faults>>

\* a in b on strings: a is a part of b.
IsSubstring(a, b) ==
  \E k \in 0..(Len(b) - Len(a)) : SubSeq(b, k + 1, k + Len(a)) = a

\* 'username in authelia_users' (line 221) for a 'users' value that is a
\* mapping, a list or a string.
Contains(users, username) ==
  IF users.t = "map" THEN username \in DOMAIN users.m
  ELSE IF users.t = "list"
    THEN \E k \in DOMAIN users.items : users.items[k] = username
  ELSE IsSubstring(username, users.s)

\* Line 221 on a 'users' value that is null, line 223 on a list or a string
\* that holds the username or on a record that is no mapping: the exception
\* leaves sync_users.
ShapeError ==
  /\ pc = "loop"
  /\ i <= Len(wizarr_users)
  /\ ValidUser(CurrentUser)
  /\ IF authelia_users.t = "null"
       THEN error' = "TypeError"
       ELSE /\ Contains(authelia_users, CurrentUser.username)
            /\ IF authelia_users.t \in {"list", "str"}
                 THEN error' = "TypeError"
                 ELSE /\ authelia_users.m[CurrentUser.username].t # "map"
                      /\ error' = "AttributeError"
  /\ pc' = "raised"
  /\ UNCHANGED <<envVars, password, file, ioVars, logVars, histVars, exit_code, report, passVars, faults>>

\* Lines 221-229: the user exists; its email is overwritten when it differs.
ExistingUser ==
  /\ pc = "loop"
  /\ i <= Len(wizarr_users)
  /\ ValidUser(CurrentUser)
  /\ authelia_users.t = "map"
  /\ CurrentUser.username \in DOMAIN authelia_users.m
  /\ authelia_users.m[CurrentUser.username].t = "map"
  /\ LET username == CurrentUser.username
         email == CurrentUser.email
         rec == authelia_users.m[username].m
         current_email == RecordGet(rec, "email", <<>>)
     IN IF current_email # email
          THEN /\ authelia_users' =
                    YMap([authelia_users.m EXCEPT ![username] = YMap(SetEmail(rec, email))])
               /\ updated_users' = updated_users + 1
          ELSE UNCHANGED <<authelia_users, updated_users>>
  /\ i' = i + 1
  /\ UNCHANGED <<envVars, password, file, ioVars, logVars, histVars, exit_code, pc, error, report,
                 wizarr_users, authelia_data, new_users, faults>>

\* Lines 230-242 and 172-179: the user is new; a password is drawn and
\* hashed, the record inserted and counted and the obfuscated password
\* written to the main log. A failing hash raises; so does the insertion
\* into a 'users' value that is a list or a string (line 236).
CreateUser ==
  /\ pc = "loop"
  /\ i <= Len(wizarr_users)
  /\ ValidUser(CurrentUser)
  /\ authelia_users.t \in {"map", "list", "str"}
  /\ ~Contains(authelia_users, CurrentUser.username)
  /\ \E random \in RandomReads : \E hashed \in Outcomes :
       LET username == CurrentUser.username
           email == CurrentUser.email
           password_hash == hash_password(password', random.salt)
       IN /\ password' = generate_password(DefaultPasswordLength, random.sample)
          /\ faults' = faults + Fault(hashed)
          /\ IF ~hashed
               THEN /\ error' = "Argon2Error"
                    /\ pc' = HashErrorPc
                    /\ UNCHANGED <<authelia_users, new_users, main_log>>
               ELSE IF authelia_users.t # "map"
                 THEN /\ error' = "TypeError"
                      /\ pc' = "raised"
                      /\ UNCHANGED <<authelia_users, new_users, main_log>>
                 ELSE /\ authelia_users' =
                           YMap((username :> NewRecord(username, email, password_hash,
                                                        cfg.default_group))
                                @@ authelia_users.m)
                      /\ new_users' = new_users + 1
                      /\ main_log' = Append(main_log, <<username, Obfuscate(password')>>)
                      /\ pc' = "log_secure"
                      /\ UNCHANGED error
  /\ UNCHANGED <<envVars, file, ioVars, histVars, exit_code, report,
                 wizarr_users, authelia_data, updated_users, i, secure_log>>

\* Lines 181-189: the password is written to the secure log when it is
\* installed; the loop goes on to the next user.
LogSecure ==
  /\ pc = "log_secure"
  /\ secure_log' = IF SecureLogAvailable(cfg)
                     THEN Append(secure_log, <<CurrentUser.username, password>>)
                     ELSE secure_log
  /\ i' = i + 1
  /\ pc' = "loop"
  /\ UNCHANGED <<envVars, password, file, ioVars, histVars, exit_code, error, report,
                 wizarr_users, authelia_data, authelia_users, new_users,
                 updated_users, main_log, faults>>

\* Lines 247-258, the test: save when something changed.
EndLoop ==
  /\ pc = "loop"
  /\ i > Len(wizarr_users)
  /\ IF HasChanges(new_users, updated_users)
       THEN pc' = "save" /\ UNCHANGED report
       ELSE pc' = "returned" /\ report' = "no_changes"
  /\ UNCHANGED <<envVars, password, file, ioVars, logVars, histVars, exit_code, error, passVars, faults>>

\* save_authelia_users, lines 120-130: nothing in a dry run; otherwise the
\* file is opened for writing, which truncates it, or the open fails and the
\* error is logged.
Save ==
  /\ pc = "save"
  /\ IF ~SaveWrites(cfg)
       THEN pc' = "restart" /\ UNCHANGED <<file, file_writes, faults>>
       ELSE \E ok \in Outcomes :
              /\ faults' = faults + Fault(ok)
              /\ file_writes' = Append(file_writes, [op |-> "open", ok |-> ok])
              /\ IF ok
                   THEN file' = Truncated /\ pc' = "dump"
                   ELSE pc' = "restart" /\ UNCHANGED file
  /\ UNCHANGED <<envVars, password, logVars, histVars, exit_code, error, report, passVars, docker_calls>>

\* save_authelia_users, lines 131-134: the document is dumped, or the dump
\* fails part-way and the error is logged.
Dump ==
  /\ pc = "dump"
  /\ \E ok \in Outcomes :
       /\ faults' = faults + Fault(ok)
       /\ file_writes' = Append(file_writes, [op |-> "dump", ok |-> ok])
       /\ IF ok
            THEN file' = yaml_dump(WithUsers(authelia_data, authelia_users))
            ELSE file' \in PartialWrites(WithUsers(authelia_data, authelia_users), TRUE)
  /\ pc' = "restart"
  /\ UNCHANGED <<envVars, password, logVars, histVars, exit_code, error, report, passVars, docker_calls>>

\* restart_authelia_container, lines 89-100: docker is started, or not (dry
\* run, restart disabled). The call is recorded with what docker does.
Restart ==
  /\ pc = "restart"
  /\ IF ~RestartIssued(cfg)
       THEN pc' = "report" /\ UNCHANGED <<docker_calls, faults>>
       ELSE \E ok \in Outcomes :
              /\ faults' = faults + Fault(ok)
              /\ docker_calls' = Append(docker_calls, [ok |-> ok])
              /\ pc' = "docker_wait"
  /\ UNCHANGED <<envVars, password, logVars, histVars, exit_code, error, report, passVars,
                 file, file_writes>>

\* restart_authelia_container, lines 100-118: subprocess.run returns, or
\* raises and the error is logged.
RestartReturns ==
  /\ pc = "docker_wait"
  /\ pc' = "report"
  /\ UNCHANGED <<envVars, password, file, ioVars, logVars, histVars, exit_code, error,
                 report, passVars, faults>>

\* What restart_authelia_container returned: True when docker was not run,
\* the outcome of the run otherwise.
RestartResult ==
  IF docker_calls = <<>> THEN TRUE ELSE docker_calls[Len(docker_calls)].ok

\* Lines 253-256: the pass logs its outcome and returns.
ReportSync ==
  /\ pc = "report"
  /\ report' = IF RestartResult THEN "complete" ELSE "restart_failed"
  /\ pc' = "returned"
  /\ UNCHANGED <<envVars, password, file, ioVars, logVars, histVars, exit_code, error,
                 passVars, faults>>

\* ------------------------------------------------------------------- main
\* sync_users returned: sleep in periodic mode (lines 280-282), finish in
\* single-run mode (line 299).
MainReturn ==
  /\ pc = "returned"
  /\ IF Periodic
       THEN pc' = "sleep" /\ UNCHANGED exit_code
       ELSE pc' = "exit" /\ exit_code' = 0
  /\ UNCHANGED <<envVars, password, file, ioVars, logVars, histVars, error, report, passVars, faults>>

\* time.sleep returns (line 282 or 292): the try statement is left and the
\* loop jumps back to line 277.
EndSleep ==
  /\ pc = "sleep"
  /\ pc' = "while"
  /\ UNCHANGED <<envVars, password, file, ioVars, logVars, histVars, exit_code, error,
                 report, passVars, faults>>

\* A faulty handler: a failed pass is not retried.
RetryAfterFailure_Never(c) == FALSE

\* The test of line 289 in the handler of the periodic loop.
RetryAfterFailure(c) == c.sync_interval > 0

\* sync_users raised: retry after the interval in periodic mode (lines
\* 288-292), exit(1) in single-run mode (lines 300-302).
MainExcept ==
  /\ pc = "raised"
  /\ IF Periodic /\ RetryAfterFailure(cfg)
       THEN pc' = "sleep" /\ UNCHANGED exit_code
       ELSE pc' = "exit" /\ exit_code' = ExitFailure
  /\ UNCHANGED <<envVars, password, file, ioVars, logVars, histVars, error, report, passVars, faults>>

\* The process is in the handler of a failed pass (lines 288-292): at its
\* log lines or in its sleep.
InHandler == pc = "raised" \/ (pc = "sleep" /\ error # "none")

\* The process is inside the try block of the periodic loop (lines 278-284):
\* in sync_users or in the sleep after it, not at the jump back to line 277.
InPeriodicTry == Periodic /\ pc \in PassSteps \cup {"returned", "sleep"} /\ ~InHandler

\* KeyboardInterrupt, raised wherever the main thread is: caught by the
\* periodic loop (lines 285-287) when raised in its try block, uncaught
\* before the loop, at the jump back to line 277, in the handler of a
\* failed pass and in single-run mode. Raised while docker runs it leaves
\* the restart issued.
\* Raised inside yaml.dump it leaves the with block of line 130, which
\* closes the file with what yaml.dump had written so far.
Interrupt ==
  /\ pc # "exit"
  /\ pc' = "exit"
  /\ error' = "KeyboardInterrupt"
  /\ exit_code' = IF InPeriodicTry THEN 0 ELSE ExitInterrupted
  /\ IF pc = "dump"
       THEN file' \in PartialWrites(WithUsers(authelia_data, authelia_users), FALSE)
       ELSE UNCHANGED file
  /\ UNCHANGED <<envVars, password, ioVars, logVars, histVars, report, passVars, faults>>

Next ==
  \/ StartPass
  \/ LoadUsers
  \/ SkipInvalid
  \/ ShapeError
  \/ ExistingUser
  \/ CreateUser
  \/ LogSecure
  \/ EndLoop
  \/ Save
  \/ Dump
  \/ Restart
  \/ RestartReturns
  \/ ReportSync
  \/ MainReturn
  \/ MainExcept
  \/ EndSleep
  \/ Interrupt

Spec == Init /\ [][Next]_vars

\* The program on the usernames of UsernameProbes: one configuration (no
\* dry run, restart enabled, secure log installed, periodic), every users
\* file.
UsernameInit ==
  /\ InitWith({c \in ConfigPool : /\ ~c.dry_run /\ c.restart_authelia
                                  /\ c.secure_handler /\ c.sync_interval > 0},
              UsernameDbPool)

UsernameSpec == UsernameInit /\ [][Next]_vars

\* The process started in periodic mode.
PeriodicInit == Init /\ Periodic

\* The periodic driver under the scheduling the process has: the one thread
\* goes on, so a handler that can run does run and a sleep ends.
FairSpec ==
  /\ PeriodicInit
  /\ [][Next]_vars
  /\ WF_vars(MainExcept) /\ WF_vars(MainReturn) /\ WF_vars(EndSleep)
  /\ WF_vars(StartPass)

\* A users file the consuming service runs with: a mapping of users, or no
\* file yet.
ServiceFile(f) ==
  \/ f.kind = "missing"
  \/ f.kind = "yaml" /\ f.data.t = "map" /\ f.data.has_users /\ f.data.users.t = "map"

\* The process started in periodic mode with a restart to issue after a
\* write: no dry run, the restart enabled; the secure log installed; the
\* users file one the consuming service runs with.
ReloadInit ==
  /\ PeriodicInit
  /\ RestartIssued(cfg)
  /\ SecureLogAvailable(cfg)
  /\ ServiceFile(file)

\* The periodic driver and the passes under that scheduling: a step of a
\* pass that can run does run too. Nothing makes a KeyboardInterrupt arrive.
FairPassSpec ==
  /\ ReloadInit
  /\ [][Next]_vars
  /\ WF_vars(StartPass \/ LoadUsers \/ SkipInvalid \/ ShapeError
               \/ ExistingUser \/ CreateUser \/ LogSecure \/ EndLoop \/ Save
               \/ Dump \/ Restart \/ RestartReturns \/ ReportSync
               \/ MainReturn \/ MainExcept \/ EndSleep)

\* ------------------------------------------------------------ properties
\* The usernames of the records of a users file.
Keys(f) ==
  IF f.kind = "yaml" /\ f.data.t = "map" /\ f.data.has_users /\ f.data.users.t = "map"
    THEN DOMAIN f.data.users.m
    ELSE {}

\* The users mapping the pass loaded.
LoadedUsers == GetUsers(authelia_data)

\* Number of password lines the end of the main log holds for a username:
\* the number of times the create step ran for it in the passes in view.
TimesCreated(u) == Cardinality({k \in DOMAIN main_log : main_log[k][1] = u})

Usernames(users) == {users[k].username : k \in DOMAIN users}

\* C1 (as claimed): idempotence. A pass that completes after a pass that
\* completed and persisted its document, on the same source list and the
\* document the first pass left, creates nothing, updates nothing and leaves
\* the users file as it found it.
C1_Idempotent ==
  (/\ pc = "returned"
   /\ prev.ok
   /\ prev.persisted
   /\ prev.src = wizarr_users
   /\ authelia_data = prev.data)
  => (new_users = 0 /\ updated_users = 0 /\ file = file_at_start)

\* C2 (as claimed): no record is deleted. When a pass has ended, every
\* username of the users file as it was when the pass started is still a
\* username of the users file.
C2_NoRecordDeleted ==
  pc \in {"returned", "raised"} => Keys(file_at_start) \subseteq Keys(file)

\* C3 (as claimed): created at most once. Over all passes the create step
\* runs at most once for each username.
C3_CreatedOnce ==
  \A u \in Usernames(wizarr_db.rows) : TimesCreated(u) <= 1

\* C4, the records: a record the pass loaded is still there, with its
\* displayname, password hash and groups, and with its email either as loaded
\* or that of a processed source user of that username whose username and
\* email pass validation.
C4_RecordsKept ==
  (authelia_data.t = "map" /\ LoadedUsers.t = "map" /\ authelia_users.t = "map") =>
    \A u \in DOMAIN LoadedUsers.m :
      LoadedUsers.m[u].t = "map" =>
        /\ u \in DOMAIN authelia_users.m
        /\ authelia_users.m[u].t = "map"
        /\ LET old == LoadedUsers.m[u].m
               new == authelia_users.m[u].m
           IN /\ DOMAIN old \subseteq DOMAIN new
              /\ DOMAIN new \subseteq DOMAIN old \cup {"email"}
              /\ \A k \in DOMAIN old \ {"email"} : new[k] = old[k]
              /\ \/ new = old
                 \/ /\ "email" \in DOMAIN new
                    /\ validate_username(u)
                    /\ validate_email(new.email)
                    /\ \E j \in 1..(i - 1) :
                         /\ j <= Len(wizarr_users)
                         /\ wizarr_users[j].username = u
                         /\ wizarr_users[j].email = new.email

\* The records of users that differ from those of users_after.
Overwritten(users, users_after) ==
  {u \in DOMAIN users.m :
     u \in DOMAIN users_after.m /\ users_after.m[u] # users.m[u]}

\* C4, the count: a step of the loop adds to updated_users the number of
\* existing records it overwrote, and no other step of a pass changes the
\* records or the count.
C4_CountStep ==
  /\ (pc = "loop" /\ authelia_users.t = "map") =>
       /\ authelia_users'.t = "map"
       /\ updated_users' = updated_users
                            + Cardinality(Overwritten(authelia_users, authelia_users'))
  /\ pc \in {"log_secure", "save", "dump", "restart", "docker_wait", "report",
            "returned", "raised"}
       /\ pc' # "load" =>
       /\ authelia_users' = authelia_users
       /\ updated_users' = updated_users

\* C4: only the email of an existing record may change, and updated_users
\* counts the overwrites.
C4_OnlyEmailChanges == []C4_RecordsKept /\ [][C4_CountStep]_vars

\* C4 witness: a pass ended having overwritten the email of a loaded record
\* that has other groups and another display name than a new record gets.
C4_Witness ==
  /\ pc = "returned"
  /\ updated_users = 1
  /\ uBob \in DOMAIN LoadedUsers.m
  /\ LoadedUsers.m[uBob] = RecBob
  /\ authelia_users.m[uBob].m.email = eO
  /\ file = yaml_dump(WithUsers(authelia_data, authelia_users))

\* C5, the step: processing a source user whose username or email fails
\* validation changes no record, no count, no log and no file, and moves on
\* to the next source user.
C5_SkipStep ==
  (/\ pc = "loop"
   /\ i <= Len(wizarr_users)
   /\ ~(validate_username(wizarr_users[i].username)
        /\ validate_email(wizarr_users[i].email)))
  => /\ UNCHANGED <<authelia_users, new_users, updated_users, main_log, secure_log,
                    file, file_writes, docker_calls>>
     /\ \/ pc' = "loop" /\ i' = i + 1 /\ error' = error
        \/ pc' = "exit" /\ error' = "KeyboardInterrupt"

\* C5, the records: every record a pass created or changed has a username
\* and an email that pass validation.
C5_ChangedAreValid ==
  (authelia_data.t = "map" /\ LoadedUsers.t = "map" /\ authelia_users.t = "map") =>
    \A u \in DOMAIN authelia_users.m :
      (u \notin DOMAIN LoadedUsers.m \/ authelia_users.m[u] # LoadedUsers.m[u]) =>
        /\ validate_username(u)
        /\ validate_email(authelia_users.m[u].m.email)

\* C5: an invalid source user has no effect on the pass.
C5_InvalidSkipped == []C5_ChangedAreValid /\ [][C5_SkipStep]_vars

\* C5 witness: a pass ended having created a record for a user and skipped
\* a later row of that username whose email is invalid; the record written
\* has the valid email.
C5_Witness ==
  /\ pc = "returned"
  /\ wizarr_users = <<[username |-> uBob, email |-> eB],
                      [username |-> uBob, email |-> eBad]>>
  /\ new_users = 1
  /\ updated_users = 0
  /\ file_at_start = FileMissing
  /\ file = yaml_dump(WithUsers(authelia_data, authelia_users))
  /\ Keys(file) = {uBob}
  /\ file.data.users.m[uBob].m.email = eB

\* Number of this pass's writes of a kind.
Writes(op) == Cardinality({k \in DOMAIN file_writes : file_writes[k].op = op})

\* C6: with dry-run off and the restart enabled, a pass that ran to its end
\* opened the users file for writing once and issued one restart if it
\* created or updated a record, and did neither otherwise; no pass writes or
\* restarts twice, a restart follows the write, and both come after the last
\* source user was processed.
C6_PersistIffChanged ==
  /\ Writes("open") <= 1
  /\ Writes("dump") <= 1
  /\ Len(docker_calls) <= 1
  /\ (file_writes # <<>> \/ docker_calls # <<>>) =>
       (i > Len(wizarr_users) /\ pc \notin {"load", "loop", "log_secure"})
  /\ docker_calls # <<>> => file_writes # <<>>
  /\ (~cfg.dry_run /\ cfg.restart_authelia /\ pc = "returned") =>
       /\ (new_users + updated_users > 0) <=> (Writes("open") = 1)
       /\ (new_users + updated_users > 0) <=> (Len(docker_calls) = 1)

\* C6 witness: a pass that only updated a record has written the file and
\* issued the restart.
C6_Witness ==
  /\ pc = "returned"
  /\ ~cfg.dry_run
  /\ cfg.restart_authelia
  /\ new_users = 0
  /\ updated_users = 1
  /\ file_writes = <<[op |-> "open", ok |-> TRUE], [op |-> "dump", ok |-> TRUE]>>
  /\ docker_calls = <<[ok |-> TRUE]>>
  /\ file # file_at_start

\* C7, the calls: in a dry run no pass opens the users file for writing or
\* issues a restart.
C7_NoCalls == cfg.dry_run => (file_writes = <<>> /\ docker_calls = <<>>)

\* C7: in a dry run the users file never changes and no restart is issued.
C7_DryRunChangesNothing == []C7_NoCalls /\ [][cfg.dry_run => file' = file]_vars

\* C7 witness: with nothing failing, the second dry-run pass has ended; like
\* the first it found a user to create, and the users file is still missing.
C7_Witness ==
  /\ cfg.dry_run
  /\ faults = 0
  /\ pass_no = 2
  /\ pc = "returned"
  /\ report = "complete"
  /\ new_users = 1
  /\ Len(main_log) = 2
  /\ file = FileMissing

\* C8, the state: after a hashing failure the pass is over, the driver has
\* the error, the users file is as the pass found it, nothing was written,
\* no restart was issued and the failing user was not got past.
C8_AbortedState ==
  error = "Argon2Error" =>
    /\ pc \in {"raised", "sleep", "while", "exit"}
    /\ file = file_at_start
    /\ file_writes = <<>>
    /\ docker_calls = <<>>
    /\ report = "none"
    /\ i <= Len(wizarr_users)
    /\ ~Contains(authelia_users, wizarr_users[i].username)
    /\ (pc = "exit" => exit_code = ExitFailure)

\* C8, the steps: the step that raises the hashing failure and the steps
\* after it process no user.
C8_AbortedStep ==
  error' = "Argon2Error" =>
    UNCHANGED <<i, authelia_users, new_users, updated_users, main_log, secure_log,
                file, file_writes, docker_calls>>

\* C8: a hashing failure aborts the whole pass.
C8_HashFailureAborts == []C8_AbortedState /\ [][C8_AbortedStep]_vars

\* C8 witness: hashing failed for the first of two new users and the process
\* has exited; the second user has no record.
C8_Witness ==
  /\ error = "Argon2Error"
  /\ pc = "exit"
  /\ i = 1
  /\ Len(wizarr_users) = 2
  /\ validate_username(wizarr_users[2].username)
  /\ validate_email(wizarr_users[2].email)
  /\ wizarr_users[2].username # wizarr_users[1].username
  /\ Keys(file) = {}

\* C9 (as claimed): in single-run mode the process exits with 0 only if the
\* pass raised nothing and every write of the users file succeeded.
C9_ExitZeroOnlyWithoutFailure ==
  (pc = "exit" /\ ~Periodic /\ exit_code = 0) =>
    /\ error = "none"
    /\ \A k \in DOMAIN file_writes : file_writes[k].ok

\* A users file that parses to {users: mapping}.
WellShaped(f) ==
  f.kind = "yaml" /\ f.data.t = "map" /\ f.data.has_users /\ f.data.users.t = "map"

\* C10 (as claimed): a pass over a users file that is missing, unreadable or
\* not of the shape {users: mapping} does not fail on the document, starts
\* from no users and, when it ends, has a record for every valid source user.
C10_MalformedAsEmpty ==
  (pass_no >= 1 /\ pc # "load" /\ ~WellShaped(file_at_start)) =>
    /\ error \notin {"AttributeError", "TypeError"}
    /\ authelia_data = EmptyDocument \/ LoadedUsers = YMap(<<>>)
    /\ pc = "returned" /\ report # "no_users" =>
         \A k \in DOMAIN wizarr_users :
           (validate_username(wizarr_users[k].username)
            /\ validate_email(wizarr_users[k].email))
           => wizarr_users[k].username \in DOMAIN authelia_users.m

\* The passwords the generator gives in a behaviour.
Plaintexts ==
  {generate_password(DefaultPasswordLength, random.sample) : random \in RandomReads}

\* The text of an encoded Argon2id hash, whole or cut short, or None, whole
\* or cut short: no password.
IsHashText(h) ==
  \/ h = YNull
  \/ h \in {YStr(text) : text \in Prefixes(NullWord)}
  \/ /\ \E n \in 0..Len(HashOrder) : DOMAIN h = {HashOrder[j] : j \in 1..n}
     /\ "alg" \in DOMAIN h => h.alg = "argon2id"

\* An encoded Argon2id hash with the parameters of hash_password: it names
\* the algorithm, the parameters, a salt and a digest, and no password.
IsEncodedHash(h) ==
  /\ DOMAIN h = {"alg", "memory_cost", "time_cost", "parallelism", "salt", "digest"}
  /\ h.alg = "argon2id"
  /\ h.memory_cost = Argon2MemoryCost
  /\ h.time_cost = Argon2TimeCost
  /\ h.parallelism = Argon2Parallelism
  /\ h.digest \in 0..65520

\* A plain with all but its first two and last two characters masked.
Masked(plain) ==
  [k \in 1..Len(plain) |->
     IF k <= 2 \/ k >= Len(plain) - 1 THEN plain[k] ELSE "*"]

\* The records of a users mapping that are mappings with a password.
WithPassword(users) ==
  IF users.t = "map"
    THEN {u \in DOMAIN users.m :
            users.m[u].t = "map" /\ "password" \in DOMAIN users.m[u].m}
    ELSE {}

\* The users mapping a users file holds.
FileUsers(f) == IF WellShaped(f) THEN f.data.users ELSE YMap(<<>>)

\* C11 (as claimed): a generated password reaches the secure log only. The
\* line a creation has just written to the main log is not the password it
\* drew, with or without the secure log; every password line of the main
\* log has the form of a masked password (first two and last two characters,
\* the rest "*"); the secure log, when installed, holds the passwords of the
\* main-log lines, line for line, in full, and no main-log line is the
\* password of its secure-log line; without the secure log no line of it is
\* written; and the password field of every record, in memory and on disk,
\* is the text of an encoded hash.
C11_PlaintextOnlyInSecureLog ==
  /\ pc = "log_secure" => main_log[Len(main_log)][2] # password
  /\ \A k \in DOMAIN main_log :
       \E pw \in Plaintexts : main_log[k][2] = Masked(pw)
  /\ Len(secure_log) <= Len(main_log)
  /\ \A k \in DOMAIN secure_log :
       /\ secure_log[k][1] = main_log[k][1]
       /\ secure_log[k][2] \in Plaintexts
       /\ main_log[k][2] = Masked(secure_log[k][2])
       /\ main_log[k][2] # secure_log[k][2]
  /\ ~cfg.secure_handler => secure_log = <<>>
  /\ \A u \in WithPassword(authelia_users) :
       IsHashText(authelia_users.m[u].m.password)
  /\ \A u \in WithPassword(FileUsers(file)) :
       IsHashText(FileUsers(file).m[u].m.password)

\* C12, the exits: in periodic mode the process is over only after a
\* KeyboardInterrupt.
C12_ExitOnlyOnInterrupt ==
  (cfg.sync_interval > 0 /\ pc = "exit") => error = "KeyboardInterrupt"

\* C12, the handler: in periodic mode the step after a pass raised goes to
\* the sleep and ends nothing, unless a KeyboardInterrupt arrives.
C12_FailureStep ==
  (cfg.sync_interval > 0 /\ pc = "raised") =>
    \/ pc' = "sleep" /\ exit_code' = exit_code /\ error' = error
    \/ pc' = "exit" /\ error' = "KeyboardInterrupt"

\* C12, the retry: in periodic mode a pass that raised is followed by the
\* start of the next pass, or by a KeyboardInterrupt in the sleep.
C12_RetryFollows ==
  \A n \in 1..(MaxPasses - 1) :
    (cfg.sync_interval > 0 /\ pc = "raised" /\ pass_no = n)
      ~> ((pc = "load" /\ pass_no = n + 1) \/ error = "KeyboardInterrupt")

\* C12: in periodic mode a failed pass is retried after the sleep; the
\* process ends on a KeyboardInterrupt only.
C12_FailedPassRetried ==
  /\ []C12_ExitOnlyOnInterrupt
  /\ [][C12_FailureStep]_vars
  /\ C12_RetryFollows

\* C12 witness: in periodic mode the first pass raised and the second pass,
\* started after the sleep, has run to its end.
C12_Witness ==
  /\ cfg.sync_interval > 0
  /\ pass_no = 2
  /\ ~prev.ok
  /\ pc = "returned"
  /\ error = "none"
  /\ report = "complete"

\* C13 (as claimed): in periodic mode a pass in flight is not stopped: from
\* a step of a pass the process goes to a step of that pass or to the end of
\* the pass, never to the exit.
C13_InterruptAtPassBoundary ==
  [][(cfg.sync_interval > 0 /\ pc \in PassSteps)
       => pc' \in PassSteps \cup {"returned", "raised"}]_vars

\* C14 (as claimed): the users file is written atomically. At every moment
\* of a pass and after it the users file is the file the pass started with
\* or the whole document the pass computed.
C14_WriteAtomic ==
  pass_no >= 1 =>
    \/ file = file_at_start
    \/ file = yaml_dump(WithUsers(authelia_data, authelia_users))

\* The format rule of a username as stated: 3 to 32 characters, each of
\* [A-Za-z0-9._-].
ExactUsername(s) ==
  /\ Len(s) >= 3
  /\ Len(s) <= 32
  /\ \A k \in 1..Len(s) : s[k] \in UsernameChars

\* C15 (as claimed): validate_username is exact. For every username the
\* pass read, validate_username accepts it if and only if it has 3 to 32
\* characters, all of [A-Za-z0-9._-].
C15_UsernameExact ==
  \A k \in DOMAIN wizarr_users :
    validate_username(wizarr_users[k].username)
      <=> ExactUsername(wizarr_users[k].username)

\* C16 (as claimed): a missing Wizarr database ends the pass gracefully.
\* Once the pass has read its stores it has no user to process, creates and
\* updates nothing, writes nothing, restarts nothing and raises nothing; the
\* process goes on to the sleep in periodic mode and exits with 0 otherwise.
C16_SourceUnavailable ==
  (~wizarr_db.exists /\ pass_no >= 1 /\ pc # "load") =>
    /\ wizarr_users = <<>>
    /\ new_users = 0 /\ updated_users = 0
    /\ file = file_at_start
    /\ file_writes = <<>> /\ docker_calls = <<>>
    /\ error \in {"none", "KeyboardInterrupt"}
    /\ pc \in {"returned", "sleep", "while", "exit"}
    /\ (pc = "exit" /\ error = "none") => exit_code = 0

\* The usernames the pass added to the mapping it loaded.
Added == DOMAIN authelia_users.m \ DOMAIN LoadedUsers.m

\* C17, the records: new_users is the number of usernames the pass added;
\* every added record has the default group as its one group, the title-cased
\* username as display name, an encoded hash as password and the email of a
\* valid source user of that username, processed or being processed.
C17_AddedRecords ==
  (authelia_data.t = "map" /\ LoadedUsers.t = "map" /\ authelia_users.t = "map") =>
    /\ new_users = Cardinality(Added)
    /\ \A u \in Added :
         /\ authelia_users.m[u].t = "map"
         /\ LET rec == authelia_users.m[u].m
            IN /\ DOMAIN rec = {"displayname", "password", "email", "groups"}
               /\ rec.groups = YList(<<cfg.default_group>>)
               /\ rec.displayname = Title(u)
               /\ IsEncodedHash(rec.password)
               /\ \E j \in 1..i :
                    /\ j <= Len(wizarr_users)
                    /\ wizarr_users[j].username = u
                    /\ wizarr_users[j].email = rec.email
                    /\ validate_username(u)
                    /\ validate_email(rec.email)

\* C17, the step: processing a valid source user whose username is not in
\* the mapping inserts one record under that username and changes no other:
\* with the source email, the default group as its one group and the hash of
\* a password drawn in this step, whose masked form goes to the main log;
\* new_users grows by one, and the step after it, which writes that password
\* to the secure log when it is installed, moves on to the next user. The
\* step inserts nothing when the hashing fails (C8) or the process is
\* interrupted.
C17_CreateStep ==
  /\ (/\ pc = "loop"
      /\ i <= Len(wizarr_users)
      /\ validate_username(wizarr_users[i].username)
      /\ validate_email(wizarr_users[i].email)
      /\ authelia_users.t = "map"
      /\ wizarr_users[i].username \notin DOMAIN authelia_users.m)
     => \/ /\ error' \in {"Argon2Error", "KeyboardInterrupt"}
           /\ UNCHANGED <<authelia_users, new_users, updated_users, i, main_log, secure_log>>
        \/ LET u == wizarr_users[i].username
               pw == password'
           IN /\ error' = error
              /\ pw \in Plaintexts
              /\ pc' = "log_secure"
              /\ authelia_users'.t = "map"
              /\ DOMAIN authelia_users'.m = DOMAIN authelia_users.m \cup {u}
              /\ \A v \in DOMAIN authelia_users.m :
                   authelia_users'.m[v] = authelia_users.m[v]
              /\ authelia_users'.m[u].t = "map"
              /\ authelia_users'.m[u].m.email = wizarr_users[i].email
              /\ authelia_users'.m[u].m.groups = YList(<<cfg.default_group>>)
              /\ authelia_users'.m[u].m.displayname = Title(u)
              /\ VerifyHash(authelia_users'.m[u].m.password, pw)
              /\ main_log' = Append(main_log, <<u, Masked(pw)>>)
              /\ new_users' = new_users + 1
              /\ UNCHANGED <<updated_users, i, secure_log>>
  /\ pc = "log_secure" =>
       /\ UNCHANGED <<authelia_users, new_users, updated_users, main_log>>
       /\ \/ pc' = "loop" /\ i' = i + 1
          \/ pc' = "exit" /\ error' = "KeyboardInterrupt" /\ UNCHANGED <<i, secure_log>>

\* C17: a valid source user absent from the target gets one new record, and
\* new_users counts the usernames added.
C17_NewRecordCreated == []C17_AddedRecords /\ [][C17_CreateStep]_vars

\* C17 witness: the source list has one username twice, with two emails, and
\* the users file was missing; the pass created one record and updated it,
\* and the file holds it with the second email and the default group.
C17_Witness ==
  /\ pc = "returned"
  /\ wizarr_users = <<[username |-> uBob, email |-> eB],
                      [username |-> uBob, email |-> eO]>>
  /\ file_at_start = FileMissing
  /\ new_users = 1
  /\ updated_users = 1
  /\ file = yaml_dump(WithUsers(authelia_data, authelia_users))
  /\ Keys(file) = {uBob}
  /\ file.data.users.m[uBob].m.email = eO
  /\ file.data.users.m[uBob].m.groups = YList(<<cfg.default_group>>)

\* The pass wrote the document it computed and the restart it issued failed.
ReloadFailed ==
  /\ pc = "returned"
  /\ report = "restart_failed"
  /\ file = yaml_dump(WithUsers(authelia_data, authelia_users))

\* The last restart issued by the current pass succeeded.
ReloadSucceeded ==
  docker_calls # <<>> /\ docker_calls[Len(docker_calls)].ok

\* A restart issued by a pass has failed and the pass is about to report it.
ReloadFailedAgain ==
  pc = "report" /\ docker_calls # <<>> /\ ~docker_calls[Len(docker_calls)].ok

\* C18 (as claimed): in periodic mode, after a pass that wrote its changes
\* and whose restart failed, a restart is issued again and succeeds, unless
\* a later restart fails too or the process is interrupted.
C18_ReloadEventuallySucceeds ==
  (cfg.sync_interval > 0 /\ ReloadFailed)
    ~> (ReloadSucceeded \/ ReloadFailedAgain \/ error = "KeyboardInterrupt")

\* A write of the users file in this pass failed.
WriteFailed == \E k \in DOMAIN file_writes : ~file_writes[k].ok

\* C19 (as claimed): the restart follows a successful write. A pass issues
\* the restart only after it opened and dumped the users file without a
\* failure; a pass whose write failed issues no restart and does not report
\* the sync as complete.
C19_ReloadAfterPersist ==
  /\ docker_calls # <<>> =>
       (Writes("open") = 1 /\ Writes("dump") = 1 /\ ~WriteFailed)
  /\ WriteFailed => (docker_calls = <<>> /\ report # "complete")

\* The lines of the secure log written in the current pass: one for each
\* record created.
EmittedInPass ==
  {k \in DOMAIN secure_log : k > Len(secure_log) - new_users}

\* C20 (as claimed): at the end of every pass each password written to the
\* secure log in that pass is the password of a record of the users file:
\* the file has a record under that username whose hash verifies the
\* password.
C20_EmittedSecretsPersisted ==
  pc \in {"returned", "raised"} =>
    \A k \in EmittedInPass :
      /\ secure_log[k][1] \in WithPassword(FileUsers(file))
      /\ VerifyHash(FileUsers(file).m[secure_log[k][1]].m.password, secure_log[k][2])

====
